---- MODULE Spec2Model ----
(***************************************************************************)
(* openzwave-stateful: the notification watcher (ZWaveWatcher), the shared *)
(* network State behind its mutex, and the mpsc channel of                  *)
(* ZWaveNotification events, as a state machine.                            *)
(*                                                                          *)
(* Producer threads are the driver's notification threads: each runs       *)
(* on_notification for one notification at a time.  The application thread *)
(* receives from the channel and may hold the State guard (get_state).     *)
(***************************************************************************)
EXTENDS Integers, Sequences, FiniteSets, TLC

VARIABLES
    controllers,    \* State.controllers : HashMap<Controller, ControllerInfo>
    nodes,          \* State.nodes       : BTreeSet<Node>  (strictly sorted sequence)
    nodes_map,      \* State.nodes_map   : HashMap<Controller, BTreeSet<Node>>
    value_ids,      \* State.value_ids   : BTreeSet<ValueID>
    stateLock,      \* holder of Mutex<State>: "none", "app" or a producer thread
    senderLock,     \* holder of Mutex<Sender>
    senderPoisoned, \* the sender mutex was poisoned by a panic under its guard
    channel,        \* events sent and not yet received (mpsc queue)
    received,       \* events the consumer has taken from the Receiver, in order
    rxAlive,        \* the Receiver has not been dropped
    pc,             \* per producer: 0 = no call in progress, else index in on_notification
    hist,           \* per producer: notifications delivered to it so far (last = current)
    panicked,       \* producers whose on_notification call panicked
    driver_values,  \* the driver's current payload of each value (read through a ValueID)
    boot,           \* the run of init(): position, device list, watcher, drivers, result,
                    \* and the notifications no watcher was there to take
    mgr,            \* ZWaveManager commands: calls made to the driver, results returned
    printed         \* what the application has written with Display, one line per event

vars == <<controllers, nodes, nodes_map, value_ids, stateLock, senderLock,
          senderPoisoned, channel, received, rxAlive, pc, hist, panicked,
          driver_values, boot, mgr, printed>>

state == <<controllers, nodes, nodes_map, value_ids>>

(***************************************************************************)
(* Bounds of the model.                                                     *)
(***************************************************************************)
\* notifications delivered in total to the producers of Spec
MaxCalls == 2
\* notifications delivered in total to the producers of SpecNodes
MaxNodeCalls == 2
\* notifications delivered in total to the producers of SpecFifo
MaxFifoCalls == 3
\* notifications delivered to the producer of SpecTypes
MaxTypeCalls == 2
\* notifications delivered to the producer of SpecSeq
MaxSeqCalls == 3

\* notifications delivered in total to the producers of SpecDrop
MaxDropCalls == 2

\* notifications delivered to the producer of SpecManager
MaxManagerCalls == 2
\* commands the application issues in SpecManager
MaxCommands == 2

\* devices in the list init is given, in SpecInit
MaxDevices == 3

\* notifications delivered to the producer of SpecCommand
MaxCommandCalls == 2

\* notifications delivered in total to the producers of SpecLive
MaxLiveCalls == 3

\* notifications the attached drivers produce in SpecInit
MaxInitCalls == 1

\* notifications delivered to the producer of SpecDisplay
MaxDisplayCalls == 2

Threads == {"p1", "p2"}
SeqThreads == {"p1"}

(***************************************************************************)
(* Identities supplied by the driver.                                       *)
(***************************************************************************)
Controller(home_id) == home_id
Node(home_id, node_id) == [home_id |-> home_id, node_id |-> node_id]
ValueID(home_id, id) == [home_id |-> home_id, id |-> id]

\* Node::get_controller
get_controller(node) == Controller(node.home_id)

\* Ord of Node and of ValueID: by home id, then by node id / value id.
Ord_lt(a, b) ==
    IF "node_id" \in DOMAIN a
    THEN a.home_id < b.home_id \/ (a.home_id = b.home_id /\ a.node_id < b.node_id)
    ELSE a.home_id < b.home_id \/ (a.home_id = b.home_id /\ a.id < b.id)

(***************************************************************************)
(* std::collections::BTreeSet as a strictly increasing sequence.           *)
(***************************************************************************)
BTreeSet_new == << >>

BTreeSet_contains(s, x) == \E i \in 1..Len(s) : s[i] = x

\* a plausible bug: a Vec-like push that does not look for an equal key
BTreeSet_insert_push(s, x) == Append(s, x)

\* insert keeps the set sorted and keeps the entry already there on an equal key
BTreeSet_insert(s, x) ==
    IF BTreeSet_contains(s, x)
    THEN s
    ELSE LET k == Cardinality({i \in 1..Len(s) : Ord_lt(s[i], x)})
         IN  SubSeq(s, 1, k) \o <<x>> \o SubSeq(s, k + 1, Len(s))

\* a plausible bug: removing an absent key pops the first entry
BTreeSet_remove_first(s, x) ==
    IF BTreeSet_contains(s, x)
    THEN LET keep(e) == e # x IN SelectSeq(s, keep)
    ELSE IF s = << >> THEN s ELSE Tail(s)

BTreeSet_remove(s, x) ==
    LET keep(e) == e # x IN SelectSeq(s, keep)

Elems(s) == {s[i] : i \in 1..Len(s)}

(***************************************************************************)
(* ControllerInfo and the decoding of the driver's byte codes.             *)
(***************************************************************************)
ControllerStates ==
    <<"Normal", "Starting", "Cancel", "Error", "Waiting", "Sleeping",
      "InProgress", "Completed", "Failed", "NodeOK", "NodeFailed">>

ControllerErrors ==
    <<"None", "ButtonNotFound", "NodeNotFound", "NotBridge", "NotSUC",
      "NotSecondary", "NotPrimary", "IsPrimary", "NotFound", "Busy",
      "Failed", "Disabled", "Overflow">>

\* Option<ControllerState>: "?" is None
ControllerState_from_u8(b) ==
    IF b < Len(ControllerStates) THEN ControllerStates[b + 1] ELSE "?"

\* Option<ControllerError>: "?" is None
ControllerError_from_u8(b) ==
    IF b < Len(ControllerErrors) THEN ControllerErrors[b + 1] ELSE "?"

ControllerInfo_new == [last_state |-> "Normal", last_error |-> "None"]

(***************************************************************************)
(* Raw notifications, as the driver hands them to on_notification.         *)
(***************************************************************************)
HomeIds == {1, 2}
NodeIds == {5, 6}
ValueIdxs == {1, 2}
Payloads == {"A", "B"}

Notification(type, home_id, node_id, event, byte, code, value, payload) ==
    [type |-> type, home_id |-> home_id, node_id |-> node_id, event |-> event,
     byte |-> byte, code |-> code, value |-> value, payload |-> payload]

\* Notification::get_controller / get_node / get_value_id
notification_get_controller(n) == Controller(n.home_id)
notification_get_node(n) == Node(n.home_id, n.node_id)
notification_get_value_id(n) == ValueID(n.home_id, n.value)

ControllerTypes ==
    {"DriverReady", "DriverFailed", "DriverReset", "AwakeNodesQueried",
     "AllNodesQueriedSomeDead", "AllNodesQueried"}

NodeTypes ==
    {"NodeNew", "NodeAdded", "NodeRemoved", "NodeNaming", "NodeProtocolInfo",
     "NodeEvent", "Group", "EssentialNodeQueriesComplete", "NodeQueriesComplete"}

ValueTypes == {"ValueAdded", "ValueChanged", "ValueRemoved", "ValueRefreshed"}

\* the notification types on_notification has an arm for
KnownTypes ==
    ControllerTypes \cup NodeTypes \cup ValueTypes \cup {"ControllerCommand", "Notification"}

\* the types whose arm takes the state lock
MutatingTypes ==
    {"DriverReady", "ControllerCommand", "NodeAdded", "NodeRemoved",
     "ValueAdded", "ValueChanged", "ValueRemoved"}

NotificationCodes ==
    {"MsgComplete", "Timeout", "NoOperation", "Awake", "Sleep", "Dead", "Alive"}

(***************************************************************************)
(* ZWaveNotification: the events put on the channel.                       *)
(***************************************************************************)
ZWaveNotification(kind, home_id, node_id, value, byte, text) ==
    [kind |-> kind, home_id |-> home_id, node_id |-> node_id, value |-> value,
     byte |-> byte, text |-> text]

ControllerEvent(kind, controller) == ZWaveNotification(kind, controller, 0, 0, 0, "")
NodeEvent(kind, node, byte) == ZWaveNotification(kind, node.home_id, node.node_id, 0, byte, "")
ValueEvent(kind, value_id) == ZWaveNotification(kind, value_id.home_id, 0, value_id.id, 0, "")
Generic(text, home_id, node_id, byte) == ZWaveNotification("Generic", home_id, node_id, 0, byte, text)

\* the name of the ControllerReady/Failed/... event of a controller-level type
ControllerEventKind(type) ==
    CASE type = "DriverReady"  -> "ControllerReady"
      [] type = "DriverFailed" -> "ControllerFailed"
      [] type = "DriverReset"  -> "ControllerReset"
      [] OTHER                 -> type

\* a plausible bug: the error byte is decoded whatever the state is
command_controller_info_always_decode(n) ==
    LET controller_state == ControllerState_from_u8(n.event)
        controller_error == ControllerError_from_u8(n.byte)
    IN  [last_state |-> IF controller_state # "?" THEN controller_state
                        ELSE ControllerInfo_new.last_state,
         last_error |-> IF controller_error # "?" THEN controller_error
                        ELSE ControllerInfo_new.last_error]

\* Type_ControllerCommand: the ControllerInfo that is stored
command_controller_info(n) ==
    LET controller_state == ControllerState_from_u8(n.event)
        controller_error == ControllerError_from_u8(n.byte)
    IN  [last_state |-> IF controller_state # "?" THEN controller_state
                        ELSE ControllerInfo_new.last_state,
         last_error |-> IF controller_state = "Error" /\ controller_error # "?"
                        THEN controller_error
                        ELSE ControllerInfo_new.last_error]

\* Type_ControllerCommand: the event that is sent
command_zwn(n) ==
    LET controller == notification_get_controller(n)
        controller_state == ControllerState_from_u8(n.event)
        controller_error == ControllerError_from_u8(n.byte)
    IN  IF controller_state = "?"
        THEN Generic("Unknown ControllerState: ", 0, 0, n.event)
        ELSE IF controller_state # "Error"
        THEN ControllerEvent("State" \o controller_state, controller)
        ELSE IF controller_error = "?"
        THEN Generic("Unknown ControllerError: ", 0, 0, n.byte)
        ELSE ControllerEvent("Error" \o controller_error, controller)

\* a plausible bug: a copied match arm, Dead is reported as Alive
notification_zwn_dead_as_alive(n) ==
    IF n.code \in NotificationCodes
    THEN NodeEvent("Notification" \o (IF n.code = "Dead" THEN "Alive" ELSE n.code),
                   notification_get_node(n), 0)
    ELSE Generic("Unknown NotificationCode ", n.home_id, n.node_id, 0)

\* Type_Notification: the event of a sub-coded notification
notification_zwn(n) ==
    IF n.code \in NotificationCodes
    THEN NodeEvent("Notification" \o n.code, notification_get_node(n), 0)
    ELSE Generic("Unknown NotificationCode ", n.home_id, n.node_id, 0)

\* the event on_notification sends for n
zwn(n) ==
    CASE n.type \in ControllerTypes ->
            ControllerEvent(ControllerEventKind(n.type), notification_get_controller(n))
      [] n.type = "ControllerCommand" -> command_zwn(n)
      [] n.type = "NodeEvent" -> NodeEvent("NodeEvent", notification_get_node(n), n.byte)
      [] n.type \in NodeTypes \ {"NodeEvent"} -> NodeEvent(n.type, notification_get_node(n), 0)
      [] n.type = "Notification" -> notification_zwn(n)
      [] n.type \in ValueTypes -> ValueEvent(n.type, notification_get_value_id(n))
      [] OTHER -> Generic("Unknown notification: ", n.home_id, n.node_id, n.byte)

(***************************************************************************)
(* impl fmt::Display for ZWaveNotification.                                 *)
(***************************************************************************)
\* the format string of each variant: its label, and the blanks that follow
\* the colon
Display_format ==
    [ControllerReady |-> <<"ControllerReady", " ">>,
     ControllerFailed |-> <<"ControllerReady", " ">>,
     ControllerReset |-> <<"ControllerReady", " ">>,
     AwakeNodesQueried |-> <<"AwakeNodesQueried", " ">>,
     AllNodesQueriedSomeDead |-> <<"AllNodesQueriedSomeDead", " ">>,
     AllNodesQueried |-> <<"AllNodesQueried", " ">>,
     StateNormal |-> <<"ControllerStateNormal", " ">>,
     StateStarting |-> <<"ControllerStateStarting", " ">>,
     StateCancel |-> <<"ControllerStateCancel", " ">>,
     StateWaiting |-> <<"ControllerStateWaiting", " ">>,
     StateSleeping |-> <<"ControllerStateSleeping", " ">>,
     StateInProgress |-> <<"ControllerStateInProgress", " ">>,
     StateCompleted |-> <<"ControllerStateCompleted", " ">>,
     StateFailed |-> <<"ControllerStateFailed", " ">>,
     StateNodeOK |-> <<"ControllerStateNodeOK", " ">>,
     StateNodeFailed |-> <<"ControllerStateNodeFailed", " ">>,
     ErrorNone |-> <<"ControllerErrorNone", " ">>,
     ErrorButtonNotFound |-> <<"ControllerErrorButtonNotFound", " ">>,
     ErrorNodeNotFound |-> <<"ControllerErrorNodeNotFound", " ">>,
     ErrorNotBridge |-> <<"ControllerErrorNotBridge", " ">>,
     ErrorNotSUC |-> <<"ControllerErrorNotSUC", " ">>,
     ErrorNotSecondary |-> <<"ControllerErrorNotSecondary", " ">>,
     ErrorNotPrimary |-> <<"ControllerErrorNotPrimary", " ">>,
     ErrorIsPrimary |-> <<"ControllerErrorIsPrimary", " ">>,
     ErrorNotFound |-> <<"ControllerErrorNotFound", " ">>,
     ErrorBusy |-> <<"ControllerErrorBusy", " ">>,
     ErrorFailed |-> <<"ControllerErrorFailed", " ">>,
     ErrorDisabled |-> <<"ControllerErrorDisabled", " ">>,
     ErrorOverflow |-> <<"ControllerErrorOverflow", " ">>,
     NodeNew |-> <<"NodeNew", "     ">>,
     NodeAdded |-> <<"NodeAdded", "   ">>,
     NodeRemoved |-> <<"NodeRemoved", " ">>,
     NodeNaming |-> <<"NodeNaming", "  ">>,
     NodeProtocolInfo |-> <<"NodeProtocolInfo", " ">>,
     NodeEvent |-> <<"NodeEvent", "   ">>,
     Group |-> <<"Group", " ">>,
     EssentialNodeQueriesComplete |-> <<"EssentialNodeQueriesComplete", " ">>,
     NodeQueriesComplete |-> <<"NodeQueriesComplete", " ">>,
     NotificationMsgComplete |-> <<"NotificationMsgComplete", " ">>,
     NotificationTimeout |-> <<"NotificationTimeout", " ">>,
     NotificationNoOperation |-> <<"NotificationNoOperation", " ">>,
     NotificationAwake |-> <<"NotificationAwake", " ">>,
     NotificationSleep |-> <<"NotificationSleep", " ">>,
     NotificationDead |-> <<"NotificationDead", "  ">>,
     NotificationAlive |-> <<"NotificationAlive", " ">>,
     ValueAdded |-> <<"ValueAdded", "     ">>,
     ValueChanged |-> <<"ValueChanged", "   ">>,
     ValueRemoved |-> <<"ValueRemoved", "   ">>,
     ValueRefreshed |-> <<"ValueRefreshed", " ">>,
     Generic |-> <<"Generic", " ">>]

\* the payload the format string is filled with
Display_args(ev) ==
    CASE ev.kind = "Generic" -> <<[text |-> ev.text, home_id |-> ev.home_id,
                                  node_id |-> ev.node_id, byte |-> ev.byte]>>
      [] ev.kind = "NodeEvent" -> <<Node(ev.home_id, ev.node_id), ev.byte>>
      [] ev.kind \in {"NodeNew", "NodeAdded", "NodeRemoved", "NodeNaming", "NodeProtocolInfo",
                      "Group", "EssentialNodeQueriesComplete", "NodeQueriesComplete",
                      "NotificationMsgComplete", "NotificationTimeout",
                      "NotificationNoOperation", "NotificationAwake", "NotificationSleep",
                      "NotificationDead", "NotificationAlive"} ->
            <<Node(ev.home_id, ev.node_id)>>
      [] ev.kind \in {"ValueAdded", "ValueChanged", "ValueRemoved", "ValueRefreshed"} ->
            <<ValueID(ev.home_id, ev.value)>>
      [] OTHER -> <<Controller(ev.home_id)>>

\* fmt: the line written for an event
Display(ev) ==
    [label |-> Display_format[ev.kind][1],
     text |-> Display_format[ev.kind][1] \o ":" \o Display_format[ev.kind][2],
     args |-> Display_args(ev)]

(***************************************************************************)
(* State: the mutators.                                                     *)
(***************************************************************************)
HashMap_insert(m, k, v) == [x \in (DOMAIN m) \cup {k} |-> IF x = k THEN v ELSE m[x]]

\* State::add_node, first half: nodes_map.entry(controller).or_insert(new).insert(node)
add_node_map(m, node) ==
    LET c == get_controller(node)
        node_set == IF c \in DOMAIN m THEN m[c] ELSE BTreeSet_new
    IN  HashMap_insert(m, c, BTreeSet_insert(node_set, node))

\* a plausible bug: the grouping is looked up with entry().or_insert, as in add_node
remove_node_map_entry(m, node) ==
    LET c == get_controller(node)
        node_set == IF c \in DOMAIN m THEN m[c] ELSE BTreeSet_new
    IN  HashMap_insert(m, c, BTreeSet_remove(node_set, node))

\* State::remove_node, first half: only when the controller has a grouping
remove_node_map(m, node) ==
    LET c == get_controller(node)
    IN  IF c \in DOMAIN m THEN HashMap_insert(m, c, BTreeSet_remove(m[c], node)) ELSE m

\* State::add_value_id
add_value_id(s, value_id) == BTreeSet_insert(s, value_id)

\* State::remove_value_id
remove_value_id(s, value_id) == BTreeSet_remove(s, value_id)

\* a plausible bug: the entry is updated in place and an error, once recorded,
\* survives an insert that carries none
controllers_insert_keep_error(m, controller, info) ==
    IF controller \in DOMAIN m /\ info.last_error = "None"
    THEN HashMap_insert(m, controller, [info EXCEPT !.last_error = m[controller].last_error])
    ELSE HashMap_insert(m, controller, info)

\* state.controllers.insert(controller, controller_info)
controllers_insert(m, controller, info) == HashMap_insert(m, controller, info)

\* the ControllerInfo an arm inserts for the controller of n
inserted_info(n) ==
    IF n.type = "DriverReady" THEN ControllerInfo_new ELSE command_controller_info(n)

(***************************************************************************)
(* on_notification as the sequence of steps a producer thread goes through. *)
(***************************************************************************)
\* State::add_node and State::remove_node touch the two node structures in turn
\* a plausible bug: the flattened set is forgotten
add_node_map_only == <<"nodes_map.insert">>

\* a plausible bug: adding a node also registers its controller
add_node_with_controller == <<"controllers.insert", "nodes_map.insert", "nodes.insert">>

add_node == <<"nodes_map.insert", "nodes.insert">>

\* a plausible bug: the flattened set is forgotten
remove_node_map_only == <<"nodes_map.remove">>

remove_node == <<"nodes_map.remove", "nodes.remove">>

\* a plausible bug: ValueChanged takes the guard but does not upsert the value
state_ops_changed_no_upsert(n) ==
    CASE n.type \in {"DriverReady", "ControllerCommand"} -> <<"controllers.insert">>
      [] n.type = "NodeAdded"                            -> add_node
      [] n.type = "NodeRemoved"                          -> remove_node
      [] n.type = "ValueAdded"                           -> <<"value_ids.insert">>
      [] n.type = "ValueRemoved"                         -> <<"value_ids.remove">>
      [] OTHER                                           -> << >>

\* what an arm does while it holds the State guard
state_ops(n) ==
    CASE n.type \in {"DriverReady", "ControllerCommand"} -> <<"controllers.insert">>
      [] n.type = "NodeAdded"                            -> add_node
      [] n.type = "NodeRemoved"                          -> remove_node
      [] n.type \in {"ValueAdded", "ValueChanged"}       -> <<"value_ids.insert">>
      [] n.type = "ValueRemoved"                         -> <<"value_ids.remove">>
      [] OTHER                                           -> << >>

StateOps ==
    {"controllers.insert", "nodes_map.insert", "nodes.insert", "nodes_map.remove",
     "nodes.remove", "value_ids.insert", "value_ids.remove"}

\* a plausible bug: the event is sent before the state is changed
on_notification_send_first(n) ==
    IF n.type \in MutatingTypes
    THEN <<"get_channel_sender", "send", "get_state">> \o state_ops(n) \o <<"drop_state">>
    ELSE <<"get_channel_sender", "send">>

\* a plausible bug: the default arm ignores what it does not know
on_notification_drop_unknown(n) ==
    IF n.type \in MutatingTypes
    THEN <<"get_state">> \o state_ops(n) \o <<"drop_state", "get_channel_sender", "send">>
    ELSE IF n.type \in KnownTypes THEN <<"get_channel_sender", "send">> ELSE << >>

\* a plausible bug: the State guard lives to the end of the arm, past the send
on_notification_send_under_guard(n) ==
    IF n.type \in MutatingTypes
    THEN <<"get_state">> \o state_ops(n) \o <<"get_channel_sender", "send", "drop_state">>
    ELSE <<"get_channel_sender", "send">>

\* a plausible bug: ValueRefreshed is handled like ValueChanged
on_notification_refresh_upserts(n) ==
    IF n.type \in MutatingTypes
    THEN <<"get_state">> \o state_ops(n) \o <<"drop_state", "get_channel_sender", "send">>
    ELSE IF n.type = "ValueRefreshed"
    THEN <<"get_state", "value_ids.insert", "drop_state", "get_channel_sender", "send">>
    ELSE <<"get_channel_sender", "send">>

\* a plausible bug: the State guard is never dropped (the block is missing and
\* the guard is leaked)
on_notification_keep_guard(n) ==
    IF n.type \in MutatingTypes
    THEN <<"get_state">> \o state_ops(n) \o <<"get_channel_sender", "send">>
    ELSE <<"get_channel_sender", "send">>

on_notification(n) ==
    IF n.type \in MutatingTypes
    THEN <<"get_state">> \o state_ops(n) \o <<"drop_state", "get_channel_sender", "send">>
    ELSE <<"get_channel_sender", "send">>

\* the notification a producer is handling (its latest one)
cur(t) == hist[t][Len(hist[t])]

\* the step a producer is about to take; "" when it is not in a call
op(t) ==
    IF t \notin panicked /\ pc[t] > 0 /\ pc[t] <= Len(on_notification(cur(t)))
    THEN on_notification(cur(t))[pc[t]]
    ELSE ""

\* to the next step, or back to the driver when the arm is finished
advance(t) ==
    pc' = [pc EXCEPT ![t] = IF pc[t] >= Len(on_notification(cur(t))) THEN 0 ELSE pc[t] + 1]

\* a plausible bug: a lock that excludes nobody
Mutex_free_always(lock) == TRUE

\* Mutex::lock: blocks until the mutex is free
Mutex_free(lock) == lock = "none"

\* a plausible bug: a stack instead of a queue
mpsc_send_front(queue, msg) == <<msg>> \o queue

\* mpsc::Sender::send on a live channel: the queue is unbounded, the event goes last
mpsc_send(queue, msg) == Append(queue, msg)

\* the message of producer t's current call: the event, with who sent it and
\* which of its calls it belongs to
msg(t) == [ev |-> zwn(cur(t)), src |-> t, seq |-> Len(hist[t])]

ValueIDs == {ValueID(h, i) : h \in HomeIds, i \in ValueIdxs}

(***************************************************************************)
(* Results and errors (error.rs).                                           *)
(***************************************************************************)
Ok == [ok |-> TRUE, err |-> "none"]
Err(e) == [ok |-> FALSE, err |-> e]

\* impl From<openzwave::Error> for Error: the driver's error is wrapped
Error_from(cause) == "OpenzwaveError(" \o cause \o ")"

\* Error::CannotReadDevice(device.clone(), err)
CannotReadDevice(device) == "CannotReadDevice(" \o device \o ")"

\* try!(call): the driver's result with its error converted
try(ozw_ok) == IF ozw_ok THEN Ok ELSE Err(Error_from("ozw"))

(***************************************************************************)
(* init(): the steps of the set-up, in the order of the code.               *)
(***************************************************************************)
\* the calls of init that can fail with the driver library's error
init_fallible == <<"Options::create", "add_option_string", "Manager::create">>

\* a plausible bug: the watcher is never registered
init_steps_no_watcher == init_fallible \o <<"ZWaveManager::new", "for">>

init_steps == init_fallible \o <<"ZWaveManager::new", "add_watcher", "for">>

\* the step after step s of init_steps
init_next(s) ==
    LET i == CHOOSE i \in 1..Len(init_steps) : init_steps[i] = s
    IN  init_steps[i + 1]

\* ZWaveManager::add_driver: which call of the driver library attaches the device
add_driver_api(device) == IF device = "usb" THEN "add_usb_driver" ELSE "add_driver"

\* the device paths init can be given (options.devices or get_default_devices())
Devices == {"usb", "/dev/ttyACM0"}

\* init is entered with the device list it will use; nothing has returned yet
init_entered(devices) ==
    [pc |-> init_steps[1], devices |-> devices, i |-> 1, watcher |-> FALSE,
     drivers |-> << >>, lost |-> 0, result |-> Err("pending")]

\* the device lists of at most max devices
DeviceLists(max) == UNION {[1..k -> Devices] : k \in 0..max}

\* init has returned Ok with one driver attached: the program is running
init_returned ==
    [pc |-> "returned", devices |-> <<"/dev/ttyACM0">>, i |-> 2, watcher |-> TRUE,
     drivers |-> <<[api |-> "add_driver", device |-> "/dev/ttyACM0"]>>,
     lost |-> 0, result |-> Ok]

(***************************************************************************)
(* Initial state: ZWaveManager::new.                                        *)
(***************************************************************************)
InitWith(T, b) ==
    /\ controllers = << >>
    /\ nodes = BTreeSet_new
    /\ nodes_map = << >>
    /\ value_ids = BTreeSet_new
    /\ stateLock = "none"
    /\ senderLock = "none"
    /\ senderPoisoned = FALSE
    /\ channel = << >>
    /\ received = << >>
    /\ rxAlive = TRUE
    /\ pc = [t \in T |-> 0]
    /\ hist = [t \in T |-> << >>]
    /\ panicked = {}
    /\ driver_values = [v \in ValueIDs |-> "-"]
    /\ boot = b
    /\ mgr = [log |-> << >>, results |-> << >>]
    /\ printed = << >>

\* the program after a successful init
InitFor(T) == InitWith(T, init_returned)

(***************************************************************************)
(* The driver calls on_notification(n) on thread t.                         *)
(***************************************************************************)
Called == LET T == DOMAIN hist
              Sum[S \in SUBSET T] ==
                  IF S = {} THEN 0
                  ELSE LET x == CHOOSE x \in S : TRUE IN Len(hist[x]) + Sum[S \ {x}]
          IN  Sum[T]

Call(t, n, max) ==
    /\ t \notin panicked
    /\ pc[t] = 0
    /\ Called < max
    /\ hist' = [hist EXCEPT ![t] = Append(@, n)]
    /\ pc' = [pc EXCEPT ![t] = IF on_notification(n) = << >> THEN 0 ELSE 1]
    /\ driver_values' =
           IF n.type \in {"ValueAdded", "ValueChanged", "ValueRefreshed"}
           THEN [driver_values EXCEPT ![notification_get_value_id(n)] = n.payload]
           ELSE driver_values
    /\ UNCHANGED <<state, stateLock, senderLock, senderPoisoned, channel, received,
                   rxAlive, panicked>>
    /\ UNCHANGED <<boot, mgr, printed>>

\* self.get_state(): the State guard is taken
GetState(t) ==
    /\ op(t) = "get_state"
    /\ Mutex_free(stateLock)
    /\ stateLock' = t
    /\ advance(t)
    /\ UNCHANGED <<state, senderLock, senderPoisoned, channel, received, rxAlive,
                   hist, panicked, driver_values>>
    /\ UNCHANGED <<boot, mgr, printed>>

\* one mutation of State under the guard
Mutate(t) ==
    LET n == cur(t)
        node == notification_get_node(n)
        value_id == notification_get_value_id(n)
    IN  /\ op(t) \in StateOps
        /\ controllers' =
               IF op(t) = "controllers.insert"
               THEN controllers_insert(controllers, notification_get_controller(n), inserted_info(n))
               ELSE controllers
        /\ nodes_map' =
               CASE op(t) = "nodes_map.insert" -> add_node_map(nodes_map, node)
                 [] op(t) = "nodes_map.remove" -> remove_node_map(nodes_map, node)
                 [] OTHER -> nodes_map
        /\ nodes' =
               CASE op(t) = "nodes.insert" -> BTreeSet_insert(nodes, node)
                 [] op(t) = "nodes.remove" -> BTreeSet_remove(nodes, node)
                 [] OTHER -> nodes
        /\ value_ids' =
               CASE op(t) = "value_ids.insert" -> add_value_id(value_ids, value_id)
                 [] op(t) = "value_ids.remove" -> remove_value_id(value_ids, value_id)
                 [] OTHER -> value_ids
        /\ advance(t)
        /\ UNCHANGED <<stateLock, senderLock, senderPoisoned, channel, received,
                       rxAlive, hist, panicked, driver_values>>
        /\ UNCHANGED <<boot, mgr, printed>>

\* the end of the block: the State guard is dropped
DropState(t) ==
    /\ op(t) = "drop_state"
    /\ stateLock' = IF stateLock = t THEN "none" ELSE stateLock
    /\ advance(t)
    /\ UNCHANGED <<state, senderLock, senderPoisoned, channel, received, rxAlive,
                   hist, panicked, driver_values>>
    /\ UNCHANGED <<boot, mgr, printed>>

\* self.get_channel_sender(): lock().unwrap() panics on a poisoned mutex
GetChannelSender(t) ==
    /\ op(t) = "get_channel_sender"
    /\ Mutex_free(senderLock)
    /\ IF senderPoisoned
       THEN /\ panicked' = panicked \cup {t}
            /\ UNCHANGED <<senderLock, pc>>
       ELSE /\ senderLock' = t
            /\ advance(t)
            /\ UNCHANGED panicked
    /\ UNCHANGED <<state, stateLock, senderPoisoned, channel, received, rxAlive,
                   hist, driver_values>>
    /\ UNCHANGED <<boot, mgr, printed>>

\* .send(zwn).unwrap(): Err when the Receiver is gone, and unwrap panics while
\* the sender guard is still alive, which poisons the sender mutex
Send(t) ==
    /\ op(t) = "send"
    /\ senderLock' = "none"
    /\ IF rxAlive
       THEN /\ channel' = mpsc_send(channel, msg(t))
            /\ advance(t)
            /\ UNCHANGED <<senderPoisoned, panicked>>
       ELSE /\ senderPoisoned' = TRUE
            /\ panicked' = panicked \cup {t}
            /\ UNCHANGED <<channel, pc>>
    /\ UNCHANGED <<state, stateLock, received, rxAlive, hist, driver_values>>
    /\ UNCHANGED <<boot, mgr, printed>>

(***************************************************************************)
(* The application thread.                                                  *)
(***************************************************************************)
\* ZWaveManager::get_state: the application takes the State guard
AppGetState ==
    /\ Mutex_free(stateLock)
    /\ stateLock' = "app"
    /\ UNCHANGED <<state, senderLock, senderPoisoned, channel, received, rxAlive,
                   pc, hist, panicked, driver_values>>
    /\ UNCHANGED <<boot, mgr, printed>>

\* the application drops its guard
AppDropState ==
    /\ stateLock = "app"
    /\ stateLock' = "none"
    /\ UNCHANGED <<state, senderLock, senderPoisoned, channel, received, rxAlive,
                   pc, hist, panicked, driver_values>>
    /\ UNCHANGED <<boot, mgr, printed>>

\* Receiver::recv: the oldest event leaves the queue
Recv ==
    /\ rxAlive
    /\ channel # << >>
    /\ received' = Append(received, Head(channel))
    /\ channel' = Tail(channel)
    /\ UNCHANGED <<state, stateLock, senderLock, senderPoisoned, rxAlive, pc, hist,
                   panicked, driver_values>>
    /\ UNCHANGED <<boot, mgr, printed>>

\* the application writes the next received event with Display
Println ==
    /\ Len(printed) < Len(received)
    /\ printed' = Append(printed, Display(received[Len(printed) + 1].ev))
    /\ UNCHANGED <<state, stateLock, senderLock, senderPoisoned, channel, received,
                   rxAlive, pc, hist, panicked, driver_values, boot, mgr>>

\* the application drops the Receiver: what is still queued is discarded
DropReceiver ==
    /\ rxAlive
    /\ rxAlive' = FALSE
    /\ channel' = << >>
    /\ UNCHANGED <<state, stateLock, senderLock, senderPoisoned, received, pc, hist,
                   panicked, driver_values>>
    /\ UNCHANGED <<boot, mgr, printed>>

(***************************************************************************)
(* init(), step by step; ok is the outcome of the library or the file system *)
(***************************************************************************)
\* return from init with result r
init_return(r) == boot' = [boot EXCEPT !.pc = "returned", !.result = r]

\* try!(Options::create(..)), try!(add_option_string(..)), try!(Manager::create(..))
InitLibrary(ok) ==
    /\ boot.pc \in {init_fallible[i] : i \in DOMAIN init_fallible}
    /\ IF ok THEN boot' = [boot EXCEPT !.pc = init_next(boot.pc)]
             ELSE init_return(try(FALSE))
    /\ UNCHANGED <<state, stateLock, senderLock, senderPoisoned, channel, received,
                   rxAlive, pc, hist, panicked, driver_values, mgr, printed>>

\* ZWaveManager::new(manager): the State, the channel and the two mutexes
InitNew ==
    /\ boot.pc = "ZWaveManager::new"
    /\ boot' = [boot EXCEPT !.pc = init_next(boot.pc)]
    /\ UNCHANGED <<state, stateLock, senderLock, senderPoisoned, channel, received,
                   rxAlive, pc, hist, panicked, driver_values, mgr, printed>>

\* try!(zwave_manager.add_watcher())
InitAddWatcher(ok) ==
    /\ boot.pc = "add_watcher"
    /\ IF ok THEN boot' = [boot EXCEPT !.pc = init_next(boot.pc), !.watcher = TRUE]
             ELSE init_return(try(FALSE))
    /\ UNCHANGED <<state, stateLock, senderLock, senderPoisoned, channel, received,
                   rxAlive, pc, hist, panicked, driver_values, mgr, printed>>

\* for device in devices.iter(): the next device, or Ok((zwave_manager, rx))
\* when the iterator is exhausted
InitNextDevice ==
    /\ boot.pc = "for"
    /\ IF boot.i <= Len(boot.devices)
       THEN boot' = [boot EXCEPT !.pc = "File::open"]
       ELSE init_return(Ok)
    /\ UNCHANGED <<state, stateLock, senderLock, senderPoisoned, channel, received,
                   rxAlive, pc, hist, panicked, driver_values, mgr, printed>>

\* try!(fs::File::open(&device).map_err(|err| Error::CannotReadDevice(..)))
InitOpen(ok) ==
    /\ boot.pc = "File::open"
    /\ IF ok THEN boot' = [boot EXCEPT !.pc = "add_driver"]
             ELSE init_return(Err(CannotReadDevice(boot.devices[boot.i])))
    /\ UNCHANGED <<state, stateLock, senderLock, senderPoisoned, channel, received,
                   rxAlive, pc, hist, panicked, driver_values, mgr, printed>>

\* try!(zwave_manager.add_driver(&device))
InitAddDriver(ok) ==
    /\ boot.pc = "add_driver"
    /\ IF ok
       THEN boot' = [boot EXCEPT !.pc = "for", !.i = @ + 1,
                                 !.drivers = Append(@, [api |-> add_driver_api(boot.devices[boot.i]),
                                                        device |-> boot.devices[boot.i]])]
       ELSE init_return(try(FALSE))
    /\ UNCHANGED <<state, stateLock, senderLock, senderPoisoned, channel, received,
                   rxAlive, pc, hist, panicked, driver_values, mgr, printed>>

\* an attached driver produces notification n on its thread t: the driver
\* library hands it to the registered watcher, and to nobody when there is none
DriverNotify(t, n, max) ==
    /\ boot.drivers # << >>
    /\ IF boot.watcher
       THEN Call(t, n, max)
       ELSE /\ boot.lost < max
            /\ boot' = [boot EXCEPT !.lost = @ + 1]
            /\ UNCHANGED <<state, stateLock, senderLock, senderPoisoned, channel, received,
                           rxAlive, pc, hist, panicked, driver_values, mgr, printed>>

(***************************************************************************)
(* ZWaveManager commands, called by the application.                        *)
(***************************************************************************)
\* a plausible bug: a failed call of the driver is tried once more
ozw_call_retry(log, call) ==
    IF call.ok THEN Append(log, call) ELSE Append(Append(log, call), call)

\* self.ozw_manager.<api>(..): one call of the driver library
ozw_call(log, call) == Append(log, call)

\* ZWaveManager::add_node(home_id, secure); ok is the driver's outcome
ManagerAddNode(home_id, secure, ok, max) ==
    /\ Len(mgr.results) < max
    /\ mgr' = [log |-> ozw_call(mgr.log, [api |-> "add_node", home_id |-> home_id,
                                           secure |-> secure, ok |-> ok]),
               results |-> Append(mgr.results, [cmd |-> "add_node", home_id |-> home_id,
                                                result |-> try(ok)])]
    /\ UNCHANGED <<state, stateLock, senderLock, senderPoisoned, channel, received,
                   rxAlive, pc, hist, panicked, driver_values, boot, printed>>

\* ZWaveManager::remove_node(home_id); ok is the driver's outcome
ManagerRemoveNode(home_id, ok, max) ==
    /\ Len(mgr.results) < max
    /\ mgr' = [log |-> ozw_call(mgr.log, [api |-> "remove_node", home_id |-> home_id,
                                           ok |-> ok]),
               results |-> Append(mgr.results, [cmd |-> "remove_node", home_id |-> home_id,
                                                result |-> try(ok)])]
    /\ UNCHANGED <<state, stateLock, senderLock, senderPoisoned, channel, received,
                   rxAlive, pc, hist, panicked, driver_values, boot, printed>>

\* the steps of a call in progress on thread t
Step(t) == GetState(t) \/ Mutate(t) \/ DropState(t) \/ GetChannelSender(t) \/ Send(t)

(***************************************************************************)
(* Specifications.                                                          *)
(***************************************************************************)
\* a notification of a type that reads only the controller
ControllerNotification(type, home_id) == Notification(type, home_id, 0, 0, 0, "None", 0, "-")
CommandNotification(home_id, event, byte) ==
    Notification("ControllerCommand", home_id, 0, event, byte, "None", 0, "-")
NodeNotification(type, home_id, node_id) ==
    Notification(type, home_id, node_id, 0, 0, "None", 0, "-")
ValueNotification(type, home_id, value, payload) ==
    Notification(type, home_id, 0, 0, 0, "None", value, payload)

\* Spec: two producer threads and the application; every state-changing
\* notification type and one emit-only type, on one controller, node and value
Inputs ==
    {ControllerNotification("DriverReady", 1), CommandNotification(1, 1, 0)}
    \cup {NodeNotification(ty, 1, 5) : ty \in {"NodeAdded", "NodeRemoved", "NodeNew"}}
    \cup {ValueNotification("ValueAdded", 1, 1, "A"),
          ValueNotification("ValueChanged", 1, 1, "B"),
          ValueNotification("ValueRemoved", 1, 1, "-")}

Init == InitFor(Threads)

Next ==
    \/ \E t \in Threads : \E n \in Inputs : Call(t, n, MaxCalls)
    \/ \E t \in Threads : Step(t)
    \/ AppGetState
    \/ AppDropState
    \/ Recv

Spec == Init /\ [][Next]_vars

\* SpecNodes: two producer threads and the application; NodeAdded and
\* NodeRemoved for three nodes of two controllers
NodeInputs ==
    {NodeNotification(ty, h, 5) : ty \in {"NodeAdded", "NodeRemoved"}, h \in HomeIds}
    \cup {NodeNotification(ty, 1, 6) : ty \in {"NodeAdded", "NodeRemoved"}}

NextNodes ==
    \/ \E t \in Threads : \E n \in NodeInputs : Call(t, n, MaxNodeCalls)
    \/ \E t \in Threads : Step(t)
    \/ AppGetState
    \/ AppDropState
    \/ Recv

SpecNodes == Init /\ [][NextNodes]_vars

\* SpecFifo: two producer threads and the consumer
FifoInputs ==
    {ControllerNotification("DriverReady", 1), NodeNotification("NodeAdded", 1, 5),
     NodeNotification("NodeNew", 1, 5)}

NextFifo ==
    \/ \E t \in Threads : \E n \in FifoInputs : Call(t, n, MaxFifoCalls)
    \/ \E t \in Threads : Step(t)
    \/ Recv

SpecFifo == Init /\ [][NextFifo]_vars

\* SpecTypes: one producer thread; every notification type, recognized and
\* unrecognized codes
TypeInputs ==
    {ControllerNotification(ty, 1) : ty \in ControllerTypes}
    \cup {CommandNotification(1, 1, 0), CommandNotification(1, 3, 1),
          CommandNotification(1, 3, 200), CommandNotification(1, 200, 0)}
    \cup {NodeNotification(ty, 1, 5) : ty \in NodeTypes \ {"NodeEvent"}}
    \cup {Notification("NodeEvent", 1, 5, 0, 7, "None", 0, "-")}
    \cup {Notification("Notification", 1, 5, 0, 0, code, 0, "-") :
              code \in NotificationCodes \cup {"None"}}
    \cup {ValueNotification(ty, 1, 1, "A") : ty \in ValueTypes \ {"ValueRemoved"}}
    \cup {ValueNotification("ValueRemoved", 1, 1, "-")}
    \cup {ControllerNotification("DriverRemoved", 1), NodeNotification("SceneEvent", 1, 5)}

InitSeq == InitFor(SeqThreads)

NextTypes ==
    \/ \E t \in SeqThreads : \E n \in TypeInputs : Call(t, n, MaxTypeCalls)
    \/ \E t \in SeqThreads : Step(t)
    \/ Recv

SpecTypes == InitSeq /\ [][NextTypes]_vars

\* SpecSeq: one producer thread; the state-changing notifications, with
\* recognized and unrecognized controller codes
SeqInputs ==
    {ControllerNotification("DriverReady", h) : h \in HomeIds}
    \cup {CommandNotification(1, 1, 0), CommandNotification(1, 3, 1),
          CommandNotification(1, 3, 200), CommandNotification(1, 200, 0)}
    \cup {NodeNotification(ty, 1, 5) : ty \in {"NodeAdded", "NodeRemoved"}}
    \cup {ValueNotification(ty, 1, 1, p) : ty \in {"ValueAdded", "ValueChanged"}, p \in Payloads}
    \cup {ValueNotification("ValueAdded", 1, 2, "A"),
          ValueNotification("ValueRemoved", 1, 1, "-")}

NextSeq ==
    \/ \E t \in SeqThreads : \E n \in SeqInputs : Call(t, n, MaxSeqCalls)
    \/ \E t \in SeqThreads : Step(t)
    \/ Recv

SpecSeq == InitSeq /\ [][NextSeq]_vars

\* SpecScenario: one producer thread delivers the end-to-end scenario, the
\* application receives and reads the state as it likes
Scenario ==
    <<ControllerNotification("DriverReady", 1),
      NodeNotification("NodeAdded", 1, 5),
      ValueNotification("ValueAdded", 1, 1, "A"),
      ValueNotification("ValueChanged", 1, 1, "B"),
      NodeNotification("NodeRemoved", 1, 5)>>

NextScenario ==
    \/ \E t \in SeqThreads : \E n \in {Scenario[i] : i \in {Len(hist[t]) + 1} \cap DOMAIN Scenario} :
           Call(t, n, Len(Scenario))
    \/ \E t \in SeqThreads : Step(t)
    \/ AppGetState
    \/ AppDropState
    \/ Recv

SpecScenario == InitSeq /\ [][NextScenario]_vars

\* SpecDrop: two producer threads, and the application may drop the Receiver
\* at any time
DropInputs ==
    {NodeNotification("NodeAdded", 1, 5), NodeNotification("NodeNew", 1, 5),
     ValueNotification("ValueAdded", 1, 1, "A")}

NextDrop ==
    \/ \E t \in Threads : \E n \in DropInputs : Call(t, n, MaxDropCalls)
    \/ \E t \in Threads : Step(t)
    \/ Recv
    \/ DropReceiver

SpecDrop == Init /\ [][NextDrop]_vars

\* SpecManager: the application issues add_node / remove_node commands while
\* one producer thread delivers notifications
ManagerInputs == {ControllerNotification("DriverReady", 1), NodeNotification("NodeAdded", 1, 5)}

NextManager ==
    \/ \E t \in SeqThreads : \E n \in ManagerInputs : Call(t, n, MaxManagerCalls)
    \/ \E t \in SeqThreads : Step(t)
    \/ Recv
    \/ \E secure, ok \in BOOLEAN : ManagerAddNode(1, secure, ok, MaxCommands)
    \/ \E ok \in BOOLEAN : ManagerRemoveNode(1, ok, MaxCommands)

SpecManager == InitSeq /\ [][NextManager]_vars

\* SpecInit: one run of init, for every device list and every outcome of the
\* calls it makes; a driver, once attached, reports that it is ready
InitInputs == {ControllerNotification("DriverReady", 1)}

InitBoot == \E devices \in DeviceLists(MaxDevices) : InitWith(SeqThreads, init_entered(devices))

NextInit ==
    \/ \E ok \in BOOLEAN : InitLibrary(ok)
    \/ InitNew
    \/ \E ok \in BOOLEAN : InitAddWatcher(ok)
    \/ InitNextDevice
    \/ \E ok \in BOOLEAN : InitOpen(ok)
    \/ \E ok \in BOOLEAN : InitAddDriver(ok)
    \/ \E t \in SeqThreads : \E n \in InitInputs : DriverNotify(t, n, MaxInitCalls)
    \/ \E t \in SeqThreads : Step(t)

SpecInit == InitBoot /\ [][NextInit]_vars

\* SpecCommand: one producer thread delivers DriverReady and ControllerCommand
\* with every pairing of these state bytes and error bytes: recognized states
\* (Starting, Error, NodeFailed), recognized errors (None, ButtonNotFound,
\* Overflow) and the first byte past the end of either enumeration
CommandEvents == {1, 3, 10, 11}
CommandBytes == {0, 1, 12, 13}

CommandInputs ==
    {ControllerNotification("DriverReady", 1)}
    \cup {CommandNotification(1, event, byte) : event \in CommandEvents, byte \in CommandBytes}

NextCommand ==
    \/ \E t \in SeqThreads : \E n \in CommandInputs : Call(t, n, MaxCommandCalls)
    \/ \E t \in SeqThreads : Step(t)
    \/ Recv

SpecCommand == InitSeq /\ [][NextCommand]_vars

\* SpecLive: two producer threads and the application under fair scheduling.
\* A producer that can take a step takes it; a producer waiting for the State
\* mutex gets it if the mutex is free again and again; the application drops a
\* guard it holds. Nothing obliges the consumer to receive.
LiveInputs == {NodeNotification("NodeAdded", 1, 5), NodeNotification("NodeNew", 1, 5)}

NextLive ==
    \/ \E t \in Threads : \E n \in LiveInputs : Call(t, n, MaxLiveCalls)
    \/ \E t \in Threads : Step(t)
    \/ AppGetState
    \/ AppDropState
    \/ Recv

Fairness ==
    /\ \A t \in Threads :
           /\ SF_vars(GetState(t))
           /\ WF_vars(Mutate(t))
           /\ WF_vars(DropState(t))
           /\ WF_vars(GetChannelSender(t))
           /\ WF_vars(Send(t))
    /\ WF_vars(AppDropState)

SpecLive == Init /\ [][NextLive]_vars /\ Fairness

\* SpecDisplay: one producer thread delivers notifications that give every
\* variant of ZWaveNotification; the application receives and writes them
DisplayInputs ==
    {ControllerNotification(ty, 1) : ty \in ControllerTypes}
    \cup {CommandNotification(1, event, 0) : event \in 0..Len(ControllerStates)}
    \cup {CommandNotification(1, 3, byte) : byte \in 0..(Len(ControllerErrors) - 1)}
    \cup {NodeNotification(ty, 1, 5) : ty \in NodeTypes \ {"NodeEvent"}}
    \cup {Notification("NodeEvent", 1, 5, 0, 7, "None", 0, "-")}
    \cup {Notification("Notification", 1, 5, 0, 0, code, 0, "-") : code \in NotificationCodes}
    \cup {ValueNotification(ty, 1, 1, "A") : ty \in ValueTypes}

NextDisplay ==
    \/ \E t \in SeqThreads : \E n \in DisplayInputs : Call(t, n, MaxDisplayCalls)
    \/ \E t \in SeqThreads : Step(t)
    \/ Recv
    \/ Println

SpecDisplay == InitSeq /\ [][NextDisplay]_vars

(***************************************************************************)
(* Properties.                                                              *)
(***************************************************************************)
\* every event sent so far, oldest first: received, then still queued
Sent == received \o channel

\* the events producer t sent for its k-th notification
SentFor(t, k) == {i \in 1..Len(Sent) : Sent[i].src = t /\ Sent[i].seq = k}

\* producer t's k-th call has returned
Returned(t, k) == k < Len(hist[t]) \/ (k = Len(hist[t]) /\ pc[t] = 0)

\* the union of the per-controller groupings
Grouped == UNION {Elems(nodes_map[c]) : c \in DOMAIN nodes_map}

\* the two node structures agree, and every node sits under its own controller only
NodesConsistent ==
    /\ Elems(nodes) = Grouped
    /\ \A x \in Elems(nodes) :
           /\ get_controller(x) \in DOMAIN nodes_map
           /\ \A c \in DOMAIN nodes_map :
                  BTreeSet_contains(nodes_map[c], x) <=> c = get_controller(x)

\* producer t has just taken the State guard and not yet touched the state
JustLocked(t) ==
    /\ t \in DOMAIN pc
    /\ pc[t] > 1
    /\ pc[t] - 1 <= Len(on_notification(cur(t)))
    /\ on_notification(cur(t))[pc[t] - 1] = "get_state"

\* C1: whenever the State lock is free, held by the application, or has just
\* been taken by a producer, the flattened node set equals the union of the
\* per-controller groupings and every node is in the grouping of its own
\* controller and in no other.
C1_NodesAgree ==
    (stateLock = "none" \/ stateLock = "app" \/ JustLocked(stateLock)) => NodesConsistent

\* the application holds the guard over a state with a node in it while a
\* producer with a notification for another controller waits for the lock
C1_Witness ==
    /\ stateLock = "app"
    /\ Len(nodes) = 1
    /\ \E t \in DOMAIN pc : op(t) = "get_state" /\ cur(t).home_id \notin DOMAIN nodes_map

\* the state change of producer t's k-th notification is complete and its
\* guard released
Applied(t, k) ==
    \/ k < Len(hist[t])
    \/ /\ k = Len(hist[t])
       /\ stateLock # t
       /\ \/ pc[t] = 0
          \/ \A i \in pc[t]..Len(on_notification(cur(t))) :
                 on_notification(cur(t))[i] \notin StateOps \cup {"get_state", "drop_state"}

\* no notification of the given types for this identity was delivered to anyone
NoneDelivered(types, home_id, node_id, value) ==
    \A t \in DOMAIN hist : \A k \in 1..Len(hist[t]) :
        ~ ( /\ hist[t][k].type \in types
            /\ hist[t][k].home_id = home_id
            /\ hist[t][k].node_id = node_id
            /\ hist[t][k].value = value )

\* C2: for every event on the channel or already received, the state change
\* of the notification that caused it is complete and the State guard
\* released; the change is there to read: the controller is in the
\* controller map, and the node (value) is in the node structures (value set)
\* unless a removal of it was delivered.
C2_MutationBeforeEvent ==
    \A i \in 1..Len(Sent) :
        LET m == Sent[i]
            n == hist[m.src][m.seq]
        IN  n.type \in MutatingTypes =>
              /\ Applied(m.src, m.seq)
              /\ n.type \in {"DriverReady", "ControllerCommand"} =>
                     notification_get_controller(n) \in DOMAIN controllers
              /\ (n.type = "NodeAdded" /\ NoneDelivered({"NodeRemoved"}, n.home_id, n.node_id, 0)) =>
                     /\ BTreeSet_contains(nodes, notification_get_node(n))
                     /\ n.home_id \in DOMAIN nodes_map
                     /\ BTreeSet_contains(nodes_map[n.home_id], notification_get_node(n))
              /\ (n.type \in {"ValueAdded", "ValueChanged"}
                    /\ NoneDelivered({"ValueRemoved"}, n.home_id, 0, n.value)) =>
                     BTreeSet_contains(value_ids, notification_get_value_id(n))
              /\ (n.type = "ValueRemoved"
                    /\ NoneDelivered({"ValueAdded", "ValueChanged"}, n.home_id, 0, n.value)) =>
                     ~ BTreeSet_contains(value_ids, notification_get_value_id(n))

\* a NodeAdded event is still queued, its node is in the state, and the
\* application holds the guard while the other producer is inside a call
C2_Witness ==
    /\ stateLock = "app"
    /\ \E i \in 1..Len(channel) : channel[i].ev.kind = "NodeAdded"
    /\ Len(nodes) = 1
    /\ \E t \in DOMAIN pc : op(t) = "get_state"

\* every notification delivered so far is a NodeAdded, no node twice
DisjointAdds ==
    \A t \in DOMAIN hist : \A k \in 1..Len(hist[t]) :
        /\ hist[t][k].type = "NodeAdded"
        /\ \A u \in DOMAIN hist : \A j \in 1..Len(hist[u]) :
               (u # t \/ j # k) =>
                   notification_get_node(hist[u][j]) # notification_get_node(hist[t][k])

\* all calls have returned and the consumer has emptied the channel
Quiescent == channel = << >> /\ \A t \in DOMAIN pc : pc[t] = 0

\* C3: when the producers have delivered NodeAdded notifications for pairwise
\* distinct nodes, all calls have returned and the channel is drained, the
\* flattened set holds exactly as many nodes as were added, each of them is in
\* its controller's grouping, and one NodeAdded event per notification was
\* received.
C3_NoLostUpdate ==
    (DisjointAdds /\ Quiescent) =>
        /\ Len(nodes) = Called
        /\ Len(received) = Called
        /\ \A t \in DOMAIN hist : \A k \in 1..Len(hist[t]) :
               LET node == notification_get_node(hist[t][k])
               IN  /\ BTreeSet_contains(nodes, node)
                   /\ get_controller(node) \in DOMAIN nodes_map
                   /\ BTreeSet_contains(nodes_map[get_controller(node)], node)
                   /\ Cardinality(SentFor(t, k)) = 1
                   /\ \A i \in SentFor(t, k) :
                          received[i].ev = NodeEvent("NodeAdded", node, 0)

\* both producers have added a node of their own, and everything is drained
C3_Witness ==
    /\ DisjointAdds
    /\ Quiescent
    /\ \A t \in DOMAIN hist : Len(hist[t]) = 1
    /\ Cardinality(DOMAIN hist) = 2

\* the call numbers of the events of producer t, in the order sent
SeqsOf(t, s) ==
    LET from_t(m) == m.src = t
        mine == SelectSeq(s, from_t)
    IN  [i \in 1..Len(mine) |-> mine[i].seq]

\* C4: the events of one producer reach the consumer in the order of its
\* calls: in what was received followed by what is queued, the events of each
\* producer carry its call numbers 1, 2, 3, ... with none repeated, skipped or
\* out of order, and each is the event of that call's notification.
C4_PerProducerFifo ==
    \A t \in DOMAIN hist :
        /\ \A i \in 1..Len(SeqsOf(t, Sent)) : SeqsOf(t, Sent)[i] = i
        /\ \A i \in 1..Len(SeqsOf(t, received)) : SeqsOf(t, received)[i] = i
        /\ \A i \in 1..Len(Sent) : Sent[i].src = t => Sent[i].ev = zwn(hist[t][Sent[i].seq])

\* the consumer has received two events of one producer around one of the other
C4_Witness ==
    /\ Len(received) = 3
    /\ received[1].src = received[3].src
    /\ received[2].src # received[1].src
    /\ received[1].ev # received[3].ev

\* a notification the translation table does not know: its type, its
\* controller-state code, its controller-error code or its sub-code
Unrecognized(n) ==
    \/ n.type \notin KnownTypes
    \/ n.type = "ControllerCommand" /\ ControllerState_from_u8(n.event) = "?"
    \/ /\ n.type = "ControllerCommand"
       /\ ControllerState_from_u8(n.event) = "Error"
       /\ ControllerError_from_u8(n.byte) = "?"
    \/ n.type = "Notification" /\ n.code \notin NotificationCodes

\* C5: while the receiver is alive, a call that has returned has put exactly
\* one event on the channel and a call in progress at most one, whatever the
\* notification; for a notification with an unrecognized type or code that
\* event is a Generic one.
C5_OneEventPerCall ==
    rxAlive =>
        \A t \in DOMAIN hist : \A k \in 1..Len(hist[t]) :
            /\ Returned(t, k) => Cardinality(SentFor(t, k)) = 1
            /\ Cardinality(SentFor(t, k)) <= 1
            /\ Unrecognized(hist[t][k]) => \A i \in SentFor(t, k) : Sent[i].ev.kind = "Generic"

\* a call for an unknown notification type has returned after a call with an
\* unknown controller-state code, and both Generic events are out
C5_Witness ==
    \E t \in DOMAIN hist :
        /\ Len(hist[t]) = 2
        /\ pc[t] = 0
        /\ hist[t][1].type = "ControllerCommand" /\ ControllerState_from_u8(hist[t][1].event) = "?"
        /\ hist[t][2].type \notin KnownTypes
        /\ Len(Sent) = 2
        /\ Sent[1].ev.kind = "Generic" /\ Sent[2].ev.kind = "Generic"

\* a DriverReady for this controller was handled by t before its current call
ReadyBefore(t, controller) ==
    \E k \in 1..(Len(hist[t]) - 1) :
        /\ hist[t][k].type = "DriverReady"
        /\ notification_get_controller(hist[t][k]) = controller

\* C6: a DriverReady for a controller that was ready before leaves the
\* controller's entry, and so its ControllerInfo, as it was.
C6_DriverReadyIdempotent ==
    [][\A t \in DOMAIN pc :
          LET c == notification_get_controller(cur(t))
          IN  (op(t) = "controllers.insert" /\ cur(t).type = "DriverReady" /\ ReadyBefore(t, c)) =>
                  (c \in DOMAIN controllers' /\ controllers'[c] = controllers[c])]_vars

\* C7: the value set never holds two entries of one identity (it is strictly
\* increasing); after ValueAdded then ValueChanged for one value identity the
\* set holds exactly one entry of that identity, the ValueID the ValueChanged
\* notification carried, and reading it gives the payload of ValueChanged.
C7_Upsert ==
    /\ \A i, j \in 1..Len(value_ids) : i < j => Ord_lt(value_ids[i], value_ids[j])
    /\ \A t \in DOMAIN hist :
           LET L == Len(hist[t]) IN
           ( /\ pc[t] = 0
             /\ L >= 2
             /\ hist[t][L - 1].type = "ValueAdded"
             /\ hist[t][L].type = "ValueChanged"
             /\ notification_get_value_id(hist[t][L - 1]) = notification_get_value_id(hist[t][L]) ) =>
               LET v == notification_get_value_id(hist[t][L])
               IN  /\ Cardinality({i \in 1..Len(value_ids) : value_ids[i] = v}) = 1
                   /\ Cardinality({i \in 1..Len(value_ids) :
                                       value_ids[i].home_id = v.home_id /\ value_ids[i].id = v.id}) = 1
                   /\ driver_values[v] = hist[t][L].payload

\* ValueAdded with payload A, then ValueChanged with payload B, next to another value
C7_Witness ==
    \E t \in DOMAIN hist :
        /\ pc[t] = 0
        /\ Len(hist[t]) = 3
        /\ hist[t][2] = ValueNotification("ValueAdded", 1, 1, "A")
        /\ hist[t][3] = ValueNotification("ValueChanged", 1, 1, "B")
        /\ Len(value_ids) = 2

\* C8: a ValueRemoved call for a value identity that is not in the value set
\* changes nothing of State at any of its steps, does not panic, and has put
\* exactly one event, ValueRemoved of that identity, on the channel when it returns.
C8_RemoveAbsentValue ==
    [][\A t \in DOMAIN pc :
          LET v == notification_get_value_id(cur(t))
              k == Len(hist[t])
          IN  (pc[t] > 0 /\ cur(t).type = "ValueRemoved" /\ ~ BTreeSet_contains(value_ids, v)) =>
                  /\ state' = state
                  /\ panicked' = panicked
                  /\ pc'[t] = 0 =>
                         /\ Cardinality(SentFor(t, k)') = 1
                         /\ \A i \in SentFor(t, k)' : Sent'[i].ev = ValueEvent("ValueRemoved", v)]_vars

\* a ValueRemoved for a value never added has returned; another value is in the set
C8_Witness ==
    \E t \in DOMAIN hist :
        /\ pc[t] = 0
        /\ Len(hist[t]) = 2
        /\ hist[t][1] = ValueNotification("ValueAdded", 1, 2, "A")
        /\ hist[t][2] = ValueNotification("ValueRemoved", 1, 1, "-")
        /\ value_ids = <<ValueID(1, 2)>>
        /\ Len(Sent) = 2
        /\ Sent[2].ev.kind = "ValueRemoved"

\* C9: no step of a ControllerCommand call whose controller-state byte is not
\* a recognized ControllerState changes State.
C9_UnknownStateNoMutation ==
    [][\A t \in DOMAIN pc :
          ( /\ pc[t] > 0
            /\ cur(t).type = "ControllerCommand"
            /\ ControllerState_from_u8(cur(t).event) = "?" ) => state' = state]_vars

\* the kinds of the events sent so far, in order
SentKinds == [i \in 1..Len(Sent) |-> Sent[i].ev.kind]

\* C10: when the scenario DriverReady(1), NodeAdded(1, 5), ValueAdded(L1),
\* ValueChanged(L1, B), NodeRemoved(1, 5) has been handled, the events sent
\* are ControllerReady, NodeAdded, ValueAdded, ValueChanged, NodeRemoved in
\* that order, the state holds controller 1, no node in the flattened set nor
\* in controller 1's grouping, and the value set still holds L1, which reads B.
C10_EndToEnd ==
    \A t \in DOMAIN hist :
        (hist[t] = Scenario /\ pc[t] = 0) =>
            /\ SentKinds = <<"ControllerReady", "NodeAdded", "ValueAdded", "ValueChanged",
                             "NodeRemoved">>
            /\ \A i \in 1..Len(Sent) : Sent[i].ev = zwn(Scenario[i])
            /\ DOMAIN controllers = {Controller(1)}
            /\ nodes = << >>
            /\ DOMAIN nodes_map = {Controller(1)}
            /\ nodes_map[Controller(1)] = << >>
            /\ value_ids = <<ValueID(1, 1)>>
            /\ driver_values[ValueID(1, 1)] = "B"

\* the scenario is over and the consumer has received all five events
C10_Witness ==
    /\ \E t \in DOMAIN hist : hist[t] = Scenario /\ pc[t] = 0
    /\ Len(received) = 5
    /\ stateLock = "app"

(***************************************************************************)
(* Failure of the channel.                                                  *)
(***************************************************************************)
\* C11: a failed send (the Receiver was dropped) is contained in
\* on_notification: no call of on_notification panics and the sender mutex is
\* never left poisoned, so later notifications on any thread are handled.
C11_SendFailureContained == panicked = {} /\ ~senderPoisoned

(***************************************************************************)
(* Lock discipline.                                                         *)
(***************************************************************************)
\* C12: the State lock is never held across a channel send: a producer that
\* holds the State mutex neither holds the sender mutex, nor waits for it,
\* nor is sending; no thread ever holds both locks.
C12_NoLockAcrossSend ==
    \A t \in DOMAIN pc :
        stateLock = t => (senderLock # t /\ op(t) \notin {"get_channel_sender", "send"})

\* both locks are held at the same time, by two different producers
C12_Witness ==
    \E t, u \in DOMAIN pc :
        t # u /\ stateLock = t /\ senderLock = u /\ op(u) = "send" /\ op(t) \in StateOps

(***************************************************************************)
(* Commands and set-up.                                                     *)
(***************************************************************************)
\* C13: ZWaveManager::add_node and remove_node call the driver exactly once
\* with the caller's arguments and pass its outcome through: Ok when the
\* driver succeeds, Err(OpenzwaveError) when it reports an error, without a
\* retry; the command changes neither the network state nor the channel.
C13_CommandPassThrough ==
    [][mgr' # mgr =>
          /\ state' = state
          /\ channel' = channel
          /\ received' = received
          /\ Len(mgr'.results) = Len(mgr.results) + 1
          /\ Len(mgr'.log) = Len(mgr.log) + 1
          /\ LET call == mgr'.log[Len(mgr'.log)]
                 ret == mgr'.results[Len(mgr'.results)]
             IN  /\ call.api = ret.cmd
                 /\ call.home_id = ret.home_id
                 /\ ret.result = IF call.ok THEN [ok |-> TRUE, err |-> "none"]
                                  ELSE [ok |-> FALSE, err |-> "OpenzwaveError(ozw)"]
      ]_vars

\* a command succeeded and a later one failed, while the state holds a node
\* and an event is queued
C13_Witness ==
    /\ Len(mgr.results) = 2
    /\ mgr.results[1].result.ok
    /\ ~mgr.results[2].result.ok
    /\ nodes # << >>
    /\ channel # << >>

\* C14: init returns Ok only if at least one driver was attached: with an
\* empty device list, a device that cannot be opened or a driver that cannot
\* be attached, init returns an Err.
C14_InitNeedsDriver ==
    (boot.pc = "returned" /\ boot.result.ok) =>
        /\ Len(boot.drivers) >= 1
        /\ Len(boot.drivers) = Len(boot.devices)

(***************************************************************************)
(* ControllerCommand: the two-level decode.                                 *)
(***************************************************************************)
\* thread t has returned from a ControllerCommand call, its latest call
CommandDone(t) ==
    /\ t \notin panicked
    /\ pc[t] = 0
    /\ hist[t] # << >>
    /\ cur(t).type = "ControllerCommand"

\* the latest event put on the channel
LastSent == Sent[Len(Sent)].ev

\* C15: the decode of ControllerCommand short-circuits: when the state byte
\* is not recognized, or is a recognized state other than Error, the error
\* byte plays no part: the stored last_error is None whatever the byte is and
\* the event is neither an Error* event nor the unknown-error diagnostic.
C15_ShortCircuit ==
    \A t \in DOMAIN pc :
        (CommandDone(t) /\ ControllerState_from_u8(cur(t).event) # "Error") =>
            /\ controllers[notification_get_controller(cur(t))].last_error = "None"
            /\ LastSent.kind \notin {"Error" \o ControllerErrors[i] : i \in DOMAIN ControllerErrors}
            /\ LastSent.text # "Unknown ControllerError: "

\* both cases have happened: an unknown state, then a state other than Error,
\* each with an error byte that decodes to an error
C15_Witness ==
    \E t \in DOMAIN pc :
        /\ CommandDone(t)
        /\ hist[t] = <<CommandNotification(1, 11, 12), CommandNotification(1, 1, 1)>>
        /\ controllers[Controller(1)] = [last_state |-> "Starting", last_error |-> "None"]

\* C16: a ControllerCommand with a recognized state replaces the controller's
\* ControllerInfo wholesale: after a state s other than Error the info is
\* exactly (s, None) whatever the earlier last_error was, after Error with a
\* recognized error e it is exactly (Error, e); the event sent is State<s>,
\* respectively Error<e>, of that controller.
C16_WholesaleReplace ==
    \A t \in DOMAIN pc :
        LET n == cur(t)
            c == notification_get_controller(n)
        IN  CommandDone(t) =>
              /\ (n.event < Len(ControllerStates) /\ ControllerStates[n.event + 1] # "Error") =>
                    /\ controllers[c] = [last_state |-> ControllerStates[n.event + 1],
                                         last_error |-> "None"]
                    /\ LastSent.kind = "State" \o ControllerStates[n.event + 1]
                    /\ LastSent.home_id = c
              /\ (n.event < Len(ControllerStates) /\ ControllerStates[n.event + 1] = "Error"
                      /\ n.byte < Len(ControllerErrors)) =>
                    /\ controllers[c] = [last_state |-> "Error",
                                         last_error |-> ControllerErrors[n.byte + 1]]
                    /\ LastSent.kind = "Error" \o ControllerErrors[n.byte + 1]
                    /\ LastSent.home_id = c

\* an Error with ButtonNotFound was recorded, then the state Starting arrives
\* and the error is gone
C16_Witness ==
    \E t \in DOMAIN pc :
        /\ CommandDone(t)
        /\ hist[t] = <<CommandNotification(1, 3, 1), CommandNotification(1, 1, 12)>>
        /\ controllers[Controller(1)] = [last_state |-> "Starting", last_error |-> "None"]
        /\ Sent[1].ev.kind = "ErrorButtonNotFound"
        /\ LastSent.kind = "StateStarting"

\* C17: no step of a ControllerCommand call whose state byte is Error and
\* whose error byte is not a recognized ControllerError changes the
\* controller map: the ControllerInfo keeps its previous last_state and
\* last_error; and when the call returns it has put exactly one event on the
\* channel, the diagnostic that carries the raw error byte.
C17_UnknownErrorNoUpdate ==
    [][\A t \in DOMAIN pc :
          ( /\ pc[t] > 0
            /\ cur(t).type = "ControllerCommand"
            /\ ControllerState_from_u8(cur(t).event) = "Error"
            /\ ControllerError_from_u8(cur(t).byte) = "?" ) =>
              /\ controllers' = controllers
              /\ pc'[t] = 0 =>
                    /\ Len(Sent') = Len(hist[t])
                    /\ LastSent'.kind = "Generic"
                    /\ LastSent'.byte = cur(t).byte]_vars

(***************************************************************************)
(* Frame conditions.                                                        *)
(***************************************************************************)
\* the notification types whose arm only sends an event
EmitOnlyTypes ==
    {"DriverFailed", "DriverReset", "AwakeNodesQueried", "AllNodesQueriedSomeDead",
     "AllNodesQueried", "NodeNew", "NodeNaming", "NodeProtocolInfo", "NodeEvent", "Group",
     "EssentialNodeQueriesComplete", "NodeQueriesComplete", "Notification", "ValueRefreshed"}

\* C18: no step of a call for an emit-only notification (the types above, with
\* any sub-code, or a type on_notification does not know) changes controllers,
\* nodes, nodes_map or value_ids, and the call never holds nor takes the State
\* lock.
C18_EmitOnlyFrame ==
    [][\A t \in DOMAIN pc :
          (pc[t] > 0 /\ (cur(t).type \in EmitOnlyTypes \/ cur(t).type \notin KnownTypes)) =>
              /\ state' = state
              /\ stateLock # t
              /\ stateLock' # t]_vars

\* the state holds a value, and a ValueRefreshed of that value has been handled
C18_Witness ==
    \E t \in DOMAIN pc :
        /\ pc[t] = 0
        /\ Len(hist[t]) = 2
        /\ hist[t][1].type = "ValueAdded"
        /\ hist[t][2].type = "ValueRefreshed"
        /\ value_ids # << >>
        /\ Len(Sent) = 2

\* C19: State::remove_node is total and a no-op on absent keys: a NodeRemoved
\* call never panics and never creates a grouping; when the node is in
\* neither node structure (its controller has no grouping, or the grouping
\* does not hold it) no step changes any of the four structures; when the
\* call returns the node is in neither the flattened set nor its
\* controller's grouping.
C19_RemoveNodeTotal ==
    [][\A t \in DOMAIN pc :
          LET node == notification_get_node(cur(t))
              c == get_controller(node)
              absent == /\ node \notin Elems(nodes)
                        /\ c \in DOMAIN nodes_map => node \notin Elems(nodes_map[c])
          IN  (pc[t] > 0 /\ cur(t).type = "NodeRemoved") =>
                  /\ panicked' = panicked
                  /\ DOMAIN nodes_map' = DOMAIN nodes_map
                  /\ absent => state' = state
                  /\ pc'[t] = 0 =>
                        /\ node \notin Elems(nodes')
                        /\ c \in DOMAIN nodes_map' => node \notin Elems(nodes_map'[c])]_vars

\* a node of an unknown controller was removed, then the node was added and
\* removed again
C19_Witness ==
    \E t \in DOMAIN pc :
        /\ pc[t] = 0
        /\ hist[t] = <<NodeNotification("NodeRemoved", 1, 5), NodeNotification("NodeAdded", 1, 5),
                       NodeNotification("NodeRemoved", 1, 5)>>
        /\ nodes = << >>
        /\ DOMAIN nodes_map = {Controller(1)}
        /\ nodes_map[Controller(1)] = << >>
        /\ Len(Sent) = 3

\* C20: no step of a NodeAdded or NodeRemoved call changes the value set or
\* the controller map, nor what the values read: the values of a node are
\* still in the set after the node's NodeRemoved.
C20_NodeCallsFrame ==
    [][\A t \in DOMAIN pc :
          (pc[t] > 0 /\ cur(t).type \in {"NodeAdded", "NodeRemoved"}) =>
              /\ value_ids' = value_ids
              /\ controllers' = controllers
              /\ driver_values' = driver_values]_vars

\* a node was added, a value was added, the node was removed: the value stays
C20_Witness ==
    \E t \in DOMAIN pc :
        /\ pc[t] = 0
        /\ hist[t] = <<NodeNotification("NodeAdded", 1, 5), ValueNotification("ValueAdded", 1, 1, "A"),
                       NodeNotification("NodeRemoved", 1, 5)>>
        /\ nodes = << >>
        /\ value_ids = <<ValueID(1, 1)>>
        /\ driver_values[ValueID(1, 1)] = "A"

(***************************************************************************)
(* Where controllers come from.                                             *)
(***************************************************************************)
\* a DriverReady for this controller has been delivered to some thread
SeenReady(controller) ==
    \E t \in DOMAIN hist : \E k \in 1..Len(hist[t]) :
        /\ hist[t][k].type = "DriverReady"
        /\ notification_get_controller(hist[t][k]) = controller

\* C21: a controller entry is created only by DriverReady: every key of
\* State.controllers is a controller for which a DriverReady was handled; a
\* ControllerCommand for a controller never seen ready does not add it.
C21_ControllersFromDriverReady == \A c \in DOMAIN controllers : SeenReady(c)

(***************************************************************************)
(* Sub-coded notifications.                                                 *)
(***************************************************************************)
\* the event variant the translation table gives for each recognized sub-code
NotificationVariant ==
    [MsgComplete |-> "NotificationMsgComplete", Timeout |-> "NotificationTimeout",
     NoOperation |-> "NotificationNoOperation", Awake |-> "NotificationAwake",
     Sleep |-> "NotificationSleep", Dead |-> "NotificationDead",
     Alive |-> "NotificationAlive"]

\* C22: when a call for a Notification-type notification has returned, the
\* event it sent is, for each of the seven recognized sub-codes, the
\* Notification* variant of that sub-code (a different variant for each
\* sub-code) carrying the causing node; for a sub-code that is absent or not
\* recognized it is a Generic event that names the causing node.
C22_SubCodeMapping ==
    /\ \A a, b \in DOMAIN NotificationVariant :
           a # b => NotificationVariant[a] # NotificationVariant[b]
    /\ \A t \in DOMAIN pc :
           LET n == cur(t)
           IN  (pc[t] = 0 /\ hist[t] # << >> /\ n.type = "Notification") =>
                   /\ Sent[Len(Sent)].ev.home_id = n.home_id
                   /\ Sent[Len(Sent)].ev.node_id = n.node_id
                   /\ Sent[Len(Sent)].ev.kind =
                          IF n.code \in DOMAIN NotificationVariant
                          THEN NotificationVariant[n.code] ELSE "Generic"
                   /\ n.code \notin DOMAIN NotificationVariant =>
                          Sent[Len(Sent)].ev.text = "Unknown NotificationCode "

\* a Dead notification, then one whose sub-code cannot be retrieved
C22_Witness ==
    \E t \in DOMAIN pc :
        /\ pc[t] = 0
        /\ Len(hist[t]) = 2
        /\ hist[t][1].type = "Notification" /\ hist[t][1].code = "Dead"
        /\ hist[t][2].type = "Notification" /\ hist[t][2].code = "None"
        /\ Sent[1].ev.kind = "NotificationDead"
        /\ Sent[2].ev.kind = "Generic"

Replay(events) ==
    LET R[i \in 0..Len(events)] ==
            IF i = 0 THEN [nodes |-> {}, values |-> {}]
            ELSE LET e == events[i].ev
                     m == R[i - 1]
                 IN  CASE e.kind = "NodeAdded" ->
                             [m EXCEPT !.nodes = @ \cup {Node(e.home_id, e.node_id)}]
                       [] e.kind = "NodeRemoved" ->
                             [m EXCEPT !.nodes = @ \ {Node(e.home_id, e.node_id)}]
                       [] e.kind \in {"ValueAdded", "ValueChanged"} ->
                             [m EXCEPT !.values = @ \cup {ValueID(e.home_id, e.value)}]
                       [] e.kind = "ValueRemoved" ->
                             [m EXCEPT !.values = @ \ {ValueID(e.home_id, e.value)}]
                       [] OTHER -> m
    IN  R[Len(events)]

\* C24: with a single producer thread, whenever no on_notification call is in
\* progress, replaying all the events sent so far, in channel order, from an
\* empty model gives exactly State.nodes and the identities of State.value_ids.
C24_EventLogFaithful ==
    (\A t \in DOMAIN pc : pc[t] = 0) =>
        /\ Replay(Sent).nodes = Elems(nodes)
        /\ Replay(Sent).values = Elems(value_ids)

\* three calls have returned: a value was changed before it was ever added,
\* then a node was added, then the value was removed
C24_Witness ==
    \E t \in DOMAIN pc :
        /\ pc[t] = 0
        /\ hist[t] = <<ValueNotification("ValueChanged", 1, 1, "A"),
                       NodeNotification("NodeAdded", 1, 5),
                       ValueNotification("ValueRemoved", 1, 1, "-")>>
        /\ Len(Sent) = 3
        /\ nodes = <<Node(1, 5)>>
        /\ value_ids = << >>

(***************************************************************************)
(* The order of init.                                                       *)
(***************************************************************************)
\* C25: in init the watcher is registered before any driver is attached: a
\* driver is attached only when add_watcher has succeeded, so no notification
\* of an attached driver is produced while no watcher is registered and every
\* one is delivered to on_notification; when init returns without a
\* registered watcher it returns an error and has attached no driver.
C25_WatcherBeforeDriver ==
    /\ boot.drivers # << >> => boot.watcher
    /\ boot.lost = 0
    /\ (\E t \in DOMAIN hist : hist[t] # << >>) => boot.watcher
    /\ (boot.pc = "returned" /\ ~boot.watcher) => (boot.drivers = << >> /\ ~boot.result.ok)

\* init has returned Ok with two drivers attached and the DriverReady of one
\* of them has been handled
C25_Witness ==
    /\ boot.pc = "returned"
    /\ boot.result.ok
    /\ Len(boot.drivers) = 2
    /\ DOMAIN controllers = {Controller(1)}
    /\ \A t \in DOMAIN pc : pc[t] = 0

(***************************************************************************)
(* Display.                                                                 *)
(***************************************************************************)
\* C26: Display renders every variant with a label of its own, followed by
\* its payload: two events of different variants are never written with the
\* same label, ControllerFailed and ControllerReset are not written with the
\* label of ControllerReady, and a Generic event is written with its
\* diagnostic text.
C26_DisplayLabels ==
    /\ \A i, j \in 1..Len(printed) :
           received[i].ev.kind # received[j].ev.kind => printed[i].label # printed[j].label
    /\ \A i \in 1..Len(printed) :
           /\ received[i].ev.kind \in {"ControllerFailed", "ControllerReset"} =>
                  printed[i].label # "ControllerReady"
           /\ received[i].ev.kind = "Generic" => printed[i].args[1].text = received[i].ev.text

====
